---- MODULE Spec2Model ----
(***************************************************************************)
(* Model of the flippr neutron spin-flipper controller.                    *)
(*                                                                         *)
(*   src/main.py      Flippr (controller, GUI slots, supervisor poll),     *)
(*                    SignalServer (remote packets -> queued Qt signals)   *)
(*   src/DAQTasks.py  ZeroOutput, AnalogTask, CompensationTask,            *)
(*                    ReadbackTask                                         *)
(*                                                                         *)
(* Every slot of Flippr runs in the Qt main thread: the GUI button and the *)
(* QTimer call it from the event loop, and the signals SignalServer emits  *)
(* from its client threads are queued to the event loop.  A slot runs to   *)
(* completion, so each slot is one action here.                            *)
(*                                                                         *)
(* Voltages and decay constants are integers, in tenths of a volt and of a *)
(* volt second.  The supervisor's clock is in seconds, waveform sample     *)
(* times in microseconds.                                                  *)
(***************************************************************************)
EXTENDS Integers, Sequences, FiniteSets, TLC

VARIABLES
    running,        \* Flippr.running       (main.py:156)
    interrupted,    \* Flippr.interrupted   (main.py:155)
    comp_spin,      \* comp_spin.value()
    amplitude_spin, \* amplitude_spin.value()
    decay_spin,     \* decay_spin.value()
    filename,       \* Flippr.filename      (main.py:177)
    atask,          \* Flippr.atask: the AnalogTask object, or NoTask
    cmptask,        \* Flippr.cmptask: the CompensationTask object, or NoTask
    ao0, ao1,       \* voltage held on dev1/ao0 and dev1/ao1
    age,            \* time() - rtask.time, in seconds
    queue,          \* queued signal emissions waiting for the event loop
    proc,           \* "exec" (app.exec_ running), "exited", "aborted"
    faults,         \* device calls that have failed so far
    log,            \* device calls issued by the most recent slot, in order
    err,            \* the most recent slot ended with an exception
    flipPeak,       \* most AnalogTask objects alive at once during that slot
    last,           \* which slot ran most recently, and its argument
    rtask,          \* Flippr.rtask: i, freq, missed, sum_delta_t of the ReadbackTask
    mon,            \* history of rtask: callbacks so far, deltas in sum_delta_t
    th,             \* per thread: the controller method it is inside, or "idle"
    pend            \* per client thread: signals of its packet still to emit

vars == <<running, interrupted, comp_spin, amplitude_spin, decay_spin, filename,
          atask, cmptask, ao0, ao1, age, queue, proc, faults, log, err,
          flipPeak, last, rtask, mon, th, pend>>

-----------------------------------------------------------------------------
(* Bounds and input sets *)

MaxAge == 6             \* the clock is followed up to MaxAge seconds of silence
MaxQueue == 1           \* queued signal emissions
MaxCallbacks == 21      \* readback callbacks followed: two windows
MaxFaults == 1          \* device calls that fail in one run
NSamp == 2              \* samples taken of the model waveform (50e3 in the code)

CompVals == {0, 12}
AmpVals == {10, 25}
DecayVals == {0, 1}
Files == {"", "w.txt"}

Max(a, b) == IF a >= b THEN a ELSE b
Min(a, b) == IF a <= b THEN a ELSE b

-----------------------------------------------------------------------------
(* Device tasks (DAQTasks.py) *)

NoTask == [st |-> "none"]

\* A cleared task has released its channel and buffer; nothing reads it again.
Cleared == [st |-> "cleared"]

Live(t) == t.st \in {"created", "started"}

\* np.linspace(1e-6, 50e-3, num), in microseconds, with num = NSamp.
linspace(k) == 1 + ((k - 1) * 49999) \div (NSamp - 1)

\* lamb tenths of a volt second over t microseconds is lamb * 1e6 / t tenths
\* of a volt (rounded down here).
AnalyticWrite(lamb, amplitude) ==
    LET raw == [k \in 1..NSamp |-> (lamb * 1000000) \div linspace(k)]
        clipped == [k \in 1..NSamp |->
                      IF raw[k] > amplitude THEN amplitude ELSE raw[k]]
    IN  Append(clipped, clipped[1])

\* Samples of a waveform file (the three-argument AnalogTask of main.py:281).
FileWrite(fname) == <<3, 7, 3>>

AnalogTask(lamb, amplitude, fname) ==
    [st |-> "created", chan |-> {"ao1"}, lamb |-> lamb, amplitude |-> amplitude,
     filename |-> fname,
     write |-> IF fname = "" THEN AnalyticWrite(lamb, amplitude)
               ELSE FileWrite(fname)]

CompensationTask(amplitude) ==
    [st |-> "created", chan |-> {"ao0"}, amplitude |-> amplitude]

-----------------------------------------------------------------------------
(* The controller state a slot works on, as one record *)

Cur ==
    [running |-> running, interrupted |-> interrupted, comp_spin |-> comp_spin,
     amplitude_spin |-> amplitude_spin, decay_spin |-> decay_spin,
     filename |-> filename, atask |-> atask, cmptask |-> cmptask,
     ao0 |-> ao0, ao1 |-> ao1, log |-> <<>>, err |-> FALSE, flipPeak |-> 0]

\* A device call is issued; the f-th device call of a slot raises DAQError
\* (f = 0: none does).
Call(s, name) == [s EXCEPT !.log = Append(@, name)]
Failed(s, f) == Len(s.log) = f
Raise(s) == [s EXCEPT !.err = TRUE]

\* A task cannot be started while another started task holds one of its
\* channels ("two tasks cannot both reserve", DAQTasks.py:61-65).
Reserved(s, chans) ==
    \/ s.atask.st = "started" /\ s.atask.chan \cap chans # {}
    \/ s.cmptask.st = "started" /\ s.cmptask.chan \cap chans # {}

\* ZeroOutput(): one task on ao0 and ao1, two samples per channel, written
\* from np.array([0.0]).  Grouped by channel, ao0 takes elements 0..1 and ao1
\* elements 2..3 of the array; each channel holds its last sample, elements 1
\* and 3, both beyond the end of the one-element array: g[1], g[2] are what
\* the driver reads there.
ZeroOutput(s, f, g) ==
    LET s1 == Call(s, "ZeroOutput.WriteAnalogF64") IN
    IF Failed(s1, f) THEN Raise(s1) ELSE
    LET s2 == Call(s1, "ZeroOutput.StartTask") IN
    IF Failed(s2, f) \/ Reserved(s2, {"ao0", "ao1"}) THEN Raise(s2) ELSE
    LET s3 == Call([s2 EXCEPT !.ao0 = g[1], !.ao1 = g[2]], "ZeroOutput.ClearTask") IN
    IF Failed(s3, f) THEN Raise(s3) ELSE s3

\* What may be read beyond the end of the array: 0.0, or something else (one
\* nonzero value stands for all of them).
ZeroReads == {0, 1} \X {0, 1}

-----------------------------------------------------------------------------
(* Flippr.on, Flippr.off, Flippr.onoff (main.py:266-350) *)

\* on() without its `if self.running == 0` guard.
onUnguarded(s, f) ==
    LET s1 == Call(s, "CompensationTask") IN
    IF Failed(s1, f) THEN Raise(s1) ELSE
    LET s2 == Call([s1 EXCEPT !.cmptask = CompensationTask(s1.comp_spin)],
                   "cmptask.StartTask") IN
    IF Failed(s2, f) THEN Raise(s2) ELSE
    LET s3 == Call([s2 EXCEPT !.cmptask.st = "started",
                              !.ao0 = s2.cmptask.amplitude],
                   "cmptask.ClearTask") IN
    IF Failed(s3, f) THEN Raise(s3) ELSE
    LET s4 == Call([s3 EXCEPT !.cmptask = Cleared], "AnalogTask") IN
    IF Failed(s4, f) THEN Raise(s4) ELSE
    LET s5 == Call([s4 EXCEPT
                      !.flipPeak = Max(@, 1 + (IF Live(s4.atask) THEN 1 ELSE 0)),
                      !.atask = AnalogTask(s4.decay_spin, s4.amplitude_spin,
                                           s4.filename)],
                   "atask.StartTask") IN
    IF Failed(s5, f) THEN Raise(s5) ELSE
    [s5 EXCEPT !.atask.st = "started",
               !.ao1 = s5.atask.write[Len(s5.atask.write)],
               !.running = 1]

on(s, f) ==
    IF s.running = 0 THEN
        LET s1 == Call(s, "CompensationTask") IN
        IF Failed(s1, f) THEN Raise(s1) ELSE
        LET s2 == Call([s1 EXCEPT !.cmptask = CompensationTask(s1.comp_spin)],
                       "cmptask.StartTask") IN
        IF Failed(s2, f) THEN Raise(s2) ELSE
        LET s3 == Call([s2 EXCEPT !.cmptask.st = "started",
                                  !.ao0 = s2.cmptask.amplitude],
                       "cmptask.ClearTask") IN
        IF Failed(s3, f) THEN Raise(s3) ELSE
        LET s4 == Call([s3 EXCEPT !.cmptask = Cleared], "AnalogTask") IN
        IF Failed(s4, f) THEN Raise(s4) ELSE
        \* the new object exists before self.atask lets go of the old one
        LET s5 == Call([s4 EXCEPT
                          !.flipPeak = Max(@, 1 + (IF Live(s4.atask) THEN 1 ELSE 0)),
                          !.atask = AnalogTask(s4.decay_spin, s4.amplitude_spin,
                                               s4.filename)],
                       "atask.StartTask") IN
        IF Failed(s5, f) THEN Raise(s5) ELSE
        [s5 EXCEPT !.atask.st = "started",
                   !.ao1 = s5.atask.write[Len(s5.atask.write)],
                   !.running = 1]
    ELSE s

\* off() without its `if self.running == 1` guard.
offUnguarded(s, f, g) ==
    LET s1 == Call(s, "atask.ClearTask") IN
    IF Failed(s1, f) THEN Raise(s1) ELSE
    LET s2 == ZeroOutput([s1 EXCEPT !.atask = Cleared], f, g) IN
    IF s2.err THEN s2 ELSE
    [s2 EXCEPT !.running = 0]

off(s, f, g) ==
    IF s.running = 1 THEN
        LET s1 == Call(s, "atask.ClearTask") IN
        IF Failed(s1, f) THEN Raise(s1) ELSE
        LET s2 == ZeroOutput([s1 EXCEPT !.atask = Cleared], f, g) IN
        IF s2.err THEN s2 ELSE
        [s2 EXCEPT !.running = 0]
    ELSE s

\* A button that only ever switches on.
onoffOnly(s, f, g) == on(s, f)

onoff(s, f, g) ==
    IF s.running = 0 THEN
        LET t1 == Call(s, "CompensationTask") IN
        IF Failed(t1, f) THEN Raise(t1) ELSE
        LET t2 == Call([t1 EXCEPT !.cmptask = CompensationTask(t1.comp_spin)],
                       "cmptask.StartTask") IN
        IF Failed(t2, f) THEN Raise(t2) ELSE
        LET t3 == Call([t2 EXCEPT !.cmptask.st = "started",
                                  !.ao0 = t2.cmptask.amplitude],
                       "cmptask.ClearTask") IN
        IF Failed(t3, f) THEN Raise(t3) ELSE
        LET t4 == Call([t3 EXCEPT !.cmptask = Cleared], "AnalogTask") IN
        IF Failed(t4, f) THEN Raise(t4) ELSE
        LET t5 == Call([t4 EXCEPT
                          !.flipPeak = Max(@, 1 + (IF Live(t4.atask) THEN 1 ELSE 0)),
                          !.atask = AnalogTask(t4.decay_spin, t4.amplitude_spin,
                                               t4.filename)],
                       "atask.StartTask") IN
        IF Failed(t5, f) THEN Raise(t5) ELSE
        [t5 EXCEPT !.atask.st = "started",
                   !.ao1 = t5.atask.write[Len(t5.atask.write)],
                   !.running = 1]
    ELSE
        LET u1 == Call(s, "atask.ClearTask") IN
        IF Failed(u1, f) THEN Raise(u1) ELSE
        LET u2 == ZeroOutput([u1 EXCEPT !.atask = Cleared], f, g) IN
        IF u2.err THEN u2 ELSE
        [u2 EXCEPT !.running = 0]

-----------------------------------------------------------------------------
(* The slots the remote signals are connected to (main.py:211-262) *)

fn(s, name) == [s EXCEPT !.filename = name]

\* "Currently just a wrapper for onoff()": a toggle that ignores its flag.
toggleWrapper(s, flag, f, g) == onoff(s, f, g)

toggle(s, flag, f, g) ==
    IF flag = 1 THEN on(s, f)
    ELSE IF flag = 0 THEN off(s, f, g)
    ELSE onoff(s, f, g)

const(s, amp, f, g) ==
    LET turnbackon == IF s.running = 1 THEN 1 ELSE 0
        s1 == IF s.running = 1 THEN onoff(s, f, g) ELSE s
    IN  IF s1.err THEN s1 ELSE
        LET s2 == [s1 EXCEPT !.decay_spin = amp]
        IN  IF turnbackon = 1 THEN onoff(s2, f, g) ELSE s2

\* A setter that stores the value and leaves the running task alone.
amplitudeNoRestart(s, amp, f, g) == [s EXCEPT !.amplitude_spin = amp]

amplitude(s, amp, f, g) ==
    LET turnbackon == IF s.running = 1 THEN 1 ELSE 0
        s1 == IF s.running = 1 THEN onoff(s, f, g) ELSE s
    IN  IF s1.err THEN s1 ELSE
        LET s2 == [s1 EXCEPT !.amplitude_spin = amp]
        IN  IF turnbackon = 1 THEN onoff(s2, f, g) ELSE s2

compensate(s, amp, f, g) ==
    LET turnbackon == IF s.running = 1 THEN 1 ELSE 0
        s1 == IF s.running = 1 THEN onoff(s, f, g) ELSE s
    IN  IF s1.err THEN s1 ELSE
        LET s2 == [s1 EXCEPT !.comp_spin = amp]
        IN  IF turnbackon = 1 THEN onoff(s2, f, g) ELSE s2

-----------------------------------------------------------------------------
(* The supervisor poll (main.py:193-202) *)

TimeoutSecs == 5

\* timeout() with line 194 reading the module's time() (`t = time()`).
TimeIsRead == TRUE

\* timeout() assigns the name `time` (line 194), so `time` is a local of
\* timeout() throughout its body, and the call time() on the right-hand side
\* of that assignment reads the local before it is bound.
TimeIsBound == FALSE

timeout(s, a, f, g) ==
    IF ~TimeIsBound THEN Raise(s)       \* UnboundLocalError at line 194
    ELSE
        LET s1 == IF s.running = 1 /\ a > TimeoutSecs
                  THEN LET o == off(s, f, g)
                       IN  IF o.err THEN o ELSE [o EXCEPT !.interrupted = 1]
                  ELSE s
        IN  IF s1.err THEN s1
            ELSE IF s1.running = 0 /\ s1.interrupted = 1 /\ a < TimeoutSecs
                 THEN LET n == on(s1, f)
                      IN  IF n.err THEN n ELSE [n EXCEPT !.interrupted = 0]
                 ELSE s1

-----------------------------------------------------------------------------
(* SignalServer.listenToClient (main.py:76-125) *)

\* A packet is a sequence of tokens: a keyword, one character, or a run of
\* other text.  `x in str(data)` is membership of the token.
Digits == {"0", "1", "2", "5"}
DigitVal(c) ==
    CASE c = "0" -> 0 [] c = "1" -> 1 [] c = "2" -> 2 [] c = "5" -> 5

Has(p, tok) == \E i \in 1..Len(p) : p[i] = tok
IsDigit(p, i) == i <= Len(p) /\ p[i] \in Digits

\* First position at or after i that holds no digit.
RECURSIVE DigitsEnd(_, _)
DigitsEnd(p, i) == IF IsDigit(p, i) THEN DigitsEnd(p, i + 1) ELSE i

\* Value, in tenths, of the digits p[i..j-1] read as an integer.
RECURSIVE IntOf(_, _, _)
IntOf(p, i, j) ==
    IF i >= j THEN 0 ELSE 10 * IntOf(p, i, j - 1) + DigitVal(p[j - 1])

\* The first match of re.findall(r"[-+]?\d*\.\d+|\d+", ...) from position i
\* on, as <<float() of it>> in tenths of a unit (packets carry at most one
\* digit after the point), or <<>> when nothing matches.
RECURSIVE FirstFloat(_, _)
FirstFloat(p, i) ==
    IF i > Len(p) THEN <<>>
    ELSE
        LET signed == p[i] \in {"-", "+"}
            b == IF signed THEN i + 1 ELSE i        \* where the digits begin
            e == DigitsEnd(p, b)                    \* where they end
            point == e <= Len(p) /\ p[e] = "." /\ IsDigit(p, e + 1)
            mag == 10 * IntOf(p, b, e) + DigitVal(p[e + 1])
        IN  IF point THEN (IF signed /\ p[i] = "-" THEN <<0 - mag>> ELSE <<mag>>)
            ELSE IF IsDigit(p, i) THEN <<10 * IntOf(p, i, DigitsEnd(p, i))>>
            ELSE FirstFloat(p, i + 1)

\* str(data, 'utf-8').replace(" ", "").replace("file", ""): what is left of a
\* packet of the form file<name> is the name token, or "" when there is none.
FileArg(p) ==
    LET rest == SelectSeq(p, LAMBDA t : t # " " /\ t # "file")
    IN  IF rest = <<>> THEN "" ELSE rest[1]

\* A byte that is not valid UTF-8 (0xff).
BadByte == "<ff>"

\* One keyword block of listenToClient: r is [em |-> signals emitted so far,
\* ok |-> no exception yet].  A query calls client.send(str), which raises
\* TypeError; with no number in the packet, [0] raises IndexError; a packet
\* that is not UTF-8 makes str(data, 'utf-8') raise UnicodeDecodeError.
Block(r, p, kw) ==
    IF ~r.ok \/ ~Has(p, kw) THEN r
    ELSE IF Has(p, "?") THEN [r EXCEPT !.ok = FALSE]
    ELSE IF kw = "file"
         THEN IF Has(p, BadByte) THEN [r EXCEPT !.ok = FALSE]
              ELSE [r EXCEPT !.em = Append(@, [sig |-> "fn", arg |-> FileArg(p)])]
    ELSE IF FirstFloat(p, 1) = <<>> THEN [r EXCEPT !.ok = FALSE]
    ELSE [r EXCEPT !.em = Append(@, [sig |-> kw, arg |-> FirstFloat(p, 1)[1]])]

\* The comp, amp, const and file blocks, in the order of the code.
Blocks(p) ==
    LET r0 == [em |-> <<>>, ok |-> p # <<>>]
        r1 == Block(r0, p, "comp")
        r2 == Block(r1, p, "amp")
        r3 == Block(r2, p, "const")
    IN  Block(r3, p, "file")

\* The signals one packet makes listenToClient emit, in order.
listenToClient(p) ==
    LET r4 == Blocks(p)
    IN  IF r4.ok /\ Has(p, "toggle")
        THEN IF Has(p, "1") THEN Append(r4.em, [sig |-> "toggle", arg |-> 1])
             ELSE IF Has(p, "0") THEN Append(r4.em, [sig |-> "toggle", arg |-> 0])
             ELSE Append(r4.em, [sig |-> "toggle", arg |-> -1])
        ELSE r4.em

Packets ==
    { <<"amp", "2", ".", "5">>, <<"amp", "1">>, <<"amp", "?">>,
      <<"comp", "1", ".", "2">>, <<"comp", "0">>,
      <<"const", "0">>, <<"const", "0", ".", "1">>,
      <<"file", " ", "w.txt">>, <<"file">>,
      <<"toggle", "1">>, <<"toggle", "0">>, <<"toggle">>,
      <<"x">>, <<"amp">>, <<"comp", "1", ".", "2", "file", BadByte>> }

-----------------------------------------------------------------------------
(* The ReadbackTask (DAQTasks.py:163-250).  Times are in hundredths of a    *)
(* second; a frequency is the fraction num/den in Hz.                       *)

\* time() - self.time at a callback: the 10 Hz pulse on time, a little late,
\* or after two missed pulses
Deltas == {10, 11, 30}

Abs(x) == IF x < 0 THEN -x ELSE x

\* ReadbackTask.__init__ (DAQTasks.py:177-182)
ReadbackTask ==
    [i |-> 0, freq |-> [num |-> 0, den |-> 1], missed |-> 0, sum_delta_t |-> 0]

\* np.abs(self.freq - 10) > 0.1, on the fraction
OffBy01(freq) == Abs(10 * freq.num - 100 * freq.den) > freq.den

\* EveryNCallback (DAQTasks.py:231-248) with d = t - self.time
CallbackBody(r, d) ==
    LET r1 == [r EXCEPT !.sum_delta_t = @ + d]
        r2 == IF r1.i % 10 = 0 /\ r1.i > 0
              THEN LET freq == [num |-> 100 * r1.i, den |-> r1.sum_delta_t]
                   IN  [r1 EXCEPT !.freq = freq,
                                  !.sum_delta_t = 0,
                                  !.i = 0,
                                  !.missed = IF OffBy01(freq) THEN @ + 1 ELSE @]
              ELSE r1
    IN  [r2 EXCEPT !.i = @ + 1]

-----------------------------------------------------------------------------
(* Threads (main.py:70-74, 162-173): the GUI thread runs the event loop and *)
(* owns the Flippr object; every accepted connection gets a thread of its   *)
(* own, which runs listenToClient and emits the server's signals.           *)

Clients == {"c1", "c2"}
Threads == {"main"} \cup Clients

\* The thread the receiver of the signals, the Flippr object, lives in
\* (created in the main thread, main.py:354).
ReceiverThread == "main"

\* A connection that always calls the slot in the emitting thread
\* (Qt.DirectConnection).
ConnectionDirect(emitter) == "direct"

\* signal.connect(slot) with the default Qt.AutoConnection: the slot is
\* called directly when the signal is emitted in the receiver's thread, and
\* queued to the receiver's event loop otherwise.
ConnectionType(emitter) == IF emitter = ReceiverThread THEN "direct" ELSE "queued"

-----------------------------------------------------------------------------
(* The program *)

Init ==
    /\ running = 0
    /\ interrupted = 0
    /\ comp_spin \in CompVals
    /\ amplitude_spin \in AmpVals
    /\ decay_spin \in DecayVals
    /\ filename = ""
    /\ atask = NoTask
    /\ cmptask = NoTask
    /\ ao0 = 0
    /\ ao1 = 0
    /\ age = 0
    /\ queue = <<>>
    /\ proc = "exec"
    /\ faults = 0
    /\ log = <<>>
    /\ err = FALSE
    /\ flipPeak = 0
    /\ last = [op |-> "init", arg |-> 0]
    /\ rtask = ReadbackTask
    /\ mon = [calls |-> 0, deltas |-> 0]
    /\ th = [t \in Threads |-> "idle"]
    /\ pend = [c \in Clients |-> <<>>]

\* Device calls of on() (two constructors, three task calls) and of off()
\* (ClearTask and the three of ZeroOutput).
OnCalls == 5
OffCalls == 4

\* Most device calls one slot issues: those of off, then those of on.
MaxCalls == OffCalls + OnCalls
Faults == IF faults < MaxFaults THEN 0..MaxCalls ELSE {0}

\* The callable has run: its result becomes the state.
Ran(s, op, arg, f) ==
    /\ running' = s.running
    /\ interrupted' = s.interrupted
    /\ comp_spin' = s.comp_spin
    /\ amplitude_spin' = s.amplitude_spin
    /\ decay_spin' = s.decay_spin
    /\ filename' = s.filename
    /\ atask' = s.atask
    /\ cmptask' = s.cmptask
    /\ ao0' = s.ao0
    /\ ao1' = s.ao1
    /\ log' = s.log
    /\ err' = s.err
    /\ flipPeak' = s.flipPeak
    /\ faults' = IF f > 0 THEN faults + 1 ELSE faults
    /\ last' = [op |-> op, arg |-> arg]

\* An exception that leaves a slot is printed by PyQt and the event loop goes
\* on or, from PyQt 5.5 on, it ends the process (qFatal).
AfterSlot(s) == proc' \in IF s.err THEN {"exec", "aborted"} ELSE {"exec"}

\* The event loop runs the slot H.  Its inputs: f, the device call that fails
\* (one of the calls the slot issues, or 0), and g, what ZeroOutput's task
\* reads beyond its array (once that task has started).
RunSlot(H(_, _), op, arg) ==
    \E f \in Faults :
        /\ f <= Len(H(f, <<0, 0>>).log)
        /\ \E g \in IF Has(H(f, <<0, 0>>).log, "ZeroOutput.ClearTask")
                     THEN ZeroReads ELSE {<<0, 0>>} :
              /\ Ran(H(f, g), op, arg, f)
              /\ AfterSlot(H(f, g))

\* on_button.clicked -> onoff (main.py:159)
Click ==
    /\ proc = "exec"
    /\ RunSlot(LAMBDA f, g : onoff(Cur, f, g), "onoff", 0)
    /\ UNCHANGED <<age, queue, rtask, mon, th, pend>>

\* timeoutClock.timeout -> timeout (main.py:190-205)
Poll ==
    /\ proc = "exec"
    /\ RunSlot(LAMBDA f, g : timeout(Cur, age, f, g), "timeout", 0)
    /\ UNCHANGED <<age, queue, rtask, mon, th, pend>>

\* a second passes without a readback callback
Tick ==
    /\ proc = "exec"
    /\ age < MaxAge
    /\ age' = age + 1
    /\ UNCHANGED <<running, interrupted, comp_spin, amplitude_spin, decay_spin,
                   filename, atask, cmptask, ao0, ao1, queue, proc, faults, log,
                   err, flipPeak, last, rtask, mon, th, pend>>

\* ReadbackTask.EveryNCallback: self.time = t (DAQTasks.py:231-248)
EveryNCallback ==
    /\ proc = "exec"
    /\ age' = 0
    /\ UNCHANGED <<running, interrupted, comp_spin, amplitude_spin, decay_spin,
                   filename, atask, cmptask, ao0, ao1, queue, proc, faults, log,
                   err, flipPeak, last, rtask, mon, th, pend>>

\* The whole callback as the DAQ thread runs it.  The controller reads
\* rtask.time alone (main.py:196, 200): SpecPoll follows that field with
\* EveryNCallback above, SpecMon follows the task's own fields with this.
Acquired ==
    /\ proc = "exec"
    /\ mon.calls < MaxCallbacks
    /\ \E d \in Deltas :
          /\ rtask' = CallbackBody(rtask, d)
          /\ mon' = [calls |-> mon.calls + 1,
                     deltas |-> IF rtask'.sum_delta_t = 0 THEN 0 ELSE mon.deltas + 1]
    /\ age' = 0
    /\ UNCHANGED <<running, interrupted, comp_spin, amplitude_spin, decay_spin,
                   filename, atask, cmptask, ao0, ao1, queue, proc, faults, log,
                   err, flipPeak, last, th, pend>>

\* A client thread receives one packet and emits its signals, which are
\* queued to the main thread.
Receive ==
    /\ proc = "exec"
    /\ \E p \in Packets :
          /\ Len(queue) + Len(listenToClient(p)) <= MaxQueue
          /\ listenToClient(p) # <<>>
          /\ queue' = queue \o listenToClient(p)
    /\ UNCHANGED <<running, interrupted, comp_spin, amplitude_spin, decay_spin,
                   filename, atask, cmptask, ao0, ao1, age, proc, faults, log,
                   err, flipPeak, last, rtask, mon, th, pend>>

\* The signal/slot connections of main.py:166-170.
Slot(s, m, f, g) ==
    CASE m.sig = "toggle" -> toggle(s, m.arg, f, g)
      [] m.sig = "comp"   -> compensate(s, m.arg, f, g)
      [] m.sig = "amp"    -> amplitude(s, m.arg, f, g)
      [] m.sig = "const"  -> const(s, m.arg, f, g)
      [] m.sig = "fn"     -> fn(s, m.arg)

\* The event loop delivers the oldest queued signal to its slot.
Deliver ==
    /\ proc = "exec"
    /\ queue # <<>>
    /\ RunSlot(LAMBDA f, g : Slot(Cur, Head(queue), f, g),
               Head(queue).sig, Head(queue).arg)
    /\ queue' = Tail(queue)
    /\ UNCHANGED <<age, rtask, mon, th, pend>>

\* The signals the packets of clients make the server emit.
Signals == UNION { {listenToClient(p)[i] : i \in 1..Len(listenToClient(p))} :
                   p \in Packets }

\* Receive and, at once, Deliver: a slot runs for a signal of some packet.
Remote ==
    /\ proc = "exec"
    /\ \E m \in Signals :
          RunSlot(LAMBDA f, g : Slot(Cur, m, f, g), m.sig, m.arg)
    /\ UNCHANGED <<age, queue, rtask, mon, th, pend>>

\* app.aboutToQuit -> ZeroOutput, then exit (main.py:357-358)
Quit ==
    /\ proc = "exec"
    /\ \E f \in Faults :
          /\ f <= Len(ZeroOutput(Cur, f, <<0, 0>>).log)
          /\ \E g \in IF Has(ZeroOutput(Cur, f, <<0, 0>>).log, "ZeroOutput.ClearTask")
                       THEN ZeroReads ELSE {<<0, 0>>} :
                Ran(ZeroOutput(Cur, f, g), "aboutToQuit", 0, f)
    /\ proc' = "exited"
    /\ UNCHANGED <<age, queue, rtask, mon, th, pend>>

\* The controller under the GUI and the remote channel.  The poll never
\* changes the controller (timeout), so the clock is left to SpecPoll.
Next ==
    \/ Click
    \/ Receive
    \/ Deliver
    \/ Quit

Spec == Init /\ [][Next]_vars

\* The controller under the GUI, the clock and the supervisor poll.
NextPoll ==
    \/ Click
    \/ Poll
    \/ Tick
    \/ EveryNCallback
    \/ Quit

SpecPoll == Init /\ [][NextPoll]_vars

\* The poll under the timer's scheduling: timeoutClock has an interval of
\* 1000 ms and is started once (main.py:190-191, 205), so while the event
\* loop runs the poll keeps firing and the seconds keep passing.  Callbacks
\* (the beam), clicks and quitting are up to the environment.
SpecLive == Init /\ [][NextPoll]_vars /\ WF_vars(Poll) /\ WF_vars(Tick)

\* The controller under its slot calls alone, no signal waiting in the queue:
\* it reaches the controller states Spec reaches.
NextCtl ==
    \/ Click
    \/ Remote
    \/ Quit

SpecCtl == Init /\ [][NextCtl]_vars

-----------------------------------------------------------------------------
(* Who executes the controller's methods.  The steps below follow the       *)
(* threads into and out of the methods; what a method does to the           *)
(* controller between the two is the business of Click, Poll and Deliver.   *)

ctl == <<running, interrupted, comp_spin, amplitude_spin, decay_spin, filename,
         atask, cmptask, ao0, ao1, age, proc, faults, log, err, flipPeak, last,
         rtask, mon>>

\* One packet for each signal of the server.
Commands ==
    { <<"toggle">>, <<"amp", "1">>, <<"comp", "0">>, <<"const", "0">>,
      <<"file", " ", "w.txt">> }

\* client.recv in a connection's thread (main.py:87)
Accept ==
    /\ proc = "exec"
    /\ \E c \in Clients, p \in Commands :
          /\ th[c] = "idle" /\ pend[c] = <<>>
          /\ listenToClient(p) # <<>>
          /\ pend' = [pend EXCEPT ![c] = listenToClient(p)]
    /\ UNCHANGED <<ctl, queue, th>>

\* self.<signal>.emit(...) in a connection's thread (main.py:93-116)
Emit ==
    /\ proc = "exec"
    /\ \E c \in Clients :
          /\ th[c] = "idle" /\ pend[c] # <<>>
          /\ pend' = [pend EXCEPT ![c] = Tail(@)]
          /\ IF ConnectionType(c) = "queued"
             THEN /\ Len(queue) < MaxQueue
                  /\ queue' = Append(queue, Head(pend[c]))
                  /\ th' = th
             ELSE /\ queue' = queue
                  /\ th' = [th EXCEPT ![c] = Head(pend[c]).sig]
    /\ UNCHANGED ctl

\* The event loop of the main thread calls onoff for a click (main.py:159),
\* timeout for the timer (main.py:204), or the slot of a queued signal
\* (main.py:166-170).
Enter ==
    /\ proc = "exec"
    /\ th["main"] = "idle"
    /\ \/ /\ \E op \in {"onoff", "timeout"} : th' = [th EXCEPT !["main"] = op]
          /\ queue' = queue
       \/ /\ queue # <<>>
          /\ th' = [th EXCEPT !["main"] = Head(queue).sig]
          /\ queue' = Tail(queue)
    /\ UNCHANGED <<ctl, pend>>

\* A thread returns from the method it was in.
Return ==
    /\ proc = "exec"
    /\ \E t \in Threads :
          /\ th[t] # "idle"
          /\ th' = [th EXCEPT ![t] = "idle"]
    /\ UNCHANGED <<ctl, queue, pend>>

NextThreads ==
    \/ Accept
    \/ Emit
    \/ Enter
    \/ Return

SpecThreads == Init /\ [][NextThreads]_vars

\* The readback task's callbacks alone.
NextMon == Acquired

SpecMon == Init /\ [][NextMon]_vars

-----------------------------------------------------------------------------
(* Properties of the controller (SpecCtl, SpecPoll: small enough to be     *)
(* explored with every bound raised; Spec adds the signal queue)           *)

\* What ZeroOutput may read beyond its array in a slot entered with s: it is
\* only called from a running flipper.
Reads(s) == IF s.running = 1 THEN ZeroReads ELSE {<<0, 0>>}

\* What the next slot starts from, after a slot that ended in s.
Begin(s) == [s EXCEPT !.log = <<>>, !.err = FALSE, !.flipPeak = 0]

\* C1 (as stated).  Beam-loss suspend: a poll that runs with running == 1 and
\* more than 5 s since the last readback callback invokes Off() (the flip
\* task is cleared, running becomes 0 when no device call fails) and sets
\* interrupted; a further poll in the same silence issues no device call.
C1_BeamLossSuspend ==
    (proc = "exec" /\ running = 1 /\ age > TimeoutSecs) =>
        \A g \in ZeroReads :
            LET r1 == timeout(Cur, age, 0, g)
                r2 == timeout(Begin(r1), age, 0, g)
            IN  /\ Has(r1.log, "atask.ClearTask")
                /\ r1.running = 0
                /\ r1.interrupted = 1
                /\ r2.log = <<>>

\* C2 (as stated, on the episode it belongs to).  Beam-return resume: after
\* a poll that met the beam loss, a poll that runs with the timing signal back
\* (less than 5 s since the last callback) invokes On() exactly once and
\* clears interrupted; a poll after that invokes neither On() nor Off().
C2_BeamReturnResume ==
    (proc = "exec" /\ running = 1 /\ age > TimeoutSecs) =>
        \A g \in ZeroReads, back \in 0..(TimeoutSecs - 1) :
            LET r1 == timeout(Cur, age, 0, g)
                r2 == timeout(Begin(r1), back, 0, g)
                r3 == timeout(Begin(r2), back, 0, g)
            IN  /\ r2.log = <<"CompensationTask", "cmptask.StartTask",
                              "cmptask.ClearTask", "AnalogTask", "atask.StartTask">>
                /\ r2.running = 1
                /\ r2.interrupted = 0
                /\ r3.log = <<>>

\* C3.  On() is idempotent: called with running == 1 it issues no device
\* call, creates no task and leaves the controller as it is, whichever
\* device call would have failed; so On() after a completed On() changes
\* nothing.
C3_OnIdempotent ==
    /\ running = 1 => \A f \in 0..OnCalls : on(Cur, f) = Cur
    /\ running = 0 =>
          \A f \in 0..OnCalls :
              LET once == on(Cur, 0)
              IN  once.running = 1 => on(Begin(once), f) = Begin(once)

\* On() has been called (remote toggle1) while running and did nothing.
C3_Witness ==
    /\ last.op = "toggle" /\ last.arg = 1
    /\ running = 1 /\ atask.st = "started"
    /\ log = <<>> /\ ~err

\* C4.  Off() with running == 0 is a no-op: no device call (no ClearTask,
\* no ZeroOutput), and running, interrupted and the task handles unchanged.
C4_OffNoOp ==
    running = 0 => \A f \in 0..OffCalls, g \in ZeroReads : off(Cur, f, g) = Cur

\* Off() has been called (remote toggle0) while not running and did nothing.
C4_Witness ==
    /\ last.op = "toggle" /\ last.arg = 0
    /\ running = 0
    /\ log = <<>> /\ ~err

\* C5.  Toggle() is `if running then Off() else On()`: from every reachable
\* state and for every outcome of the device calls, onoff issues the device
\* calls and ends in the state of off when running == 1, of on otherwise.
C5_ToggleEquiv ==
    \A f \in 0..OnCalls, g \in Reads(Cur) :
        onoff(Cur, f, g) = IF running = 1 THEN off(Cur, f, g) ELSE on(Cur, f)

\* Toggle() has switched the flipper off: the flip task is cleared and the
\* outputs were written by ZeroOutput.
C5_Witness ==
    /\ last.op = "onoff"
    /\ running = 0 /\ atask = Cleared
    /\ log = <<"atask.ClearTask", "ZeroOutput.WriteAnalogF64",
               "ZeroOutput.StartTask", "ZeroOutput.ClearTask">>

\* Largest sample of a buffer.
RECURSIVE MaxOf(_)
MaxOf(w) == IF Len(w) = 1 THEN w[1] ELSE Max(w[1], MaxOf(Tail(w)))

\* Off(), then the parameter update, then On(), no device call failing.
Restart(s, field, v, g) ==
    LET o == off(s, 0, g)
    IN  on([o EXCEPT ![field] = v], 0)

OffOnLog ==
    <<"atask.ClearTask", "ZeroOutput.WriteAnalogF64", "ZeroOutput.StartTask",
      "ZeroOutput.ClearTask", "CompensationTask", "cmptask.StartTask",
      "cmptask.ClearTask", "AnalogTask", "atask.StartTask">>

\* C6.  SetAmplitude, SetDecayConstant and SetCompensation called while
\* running (also for the signal of a remote amp/const/comp packet) do Off(),
\* the update, On(), in this order; when no device call fails they end with
\* running == 1 and with the new tasks built from the new value: the flip
\* task from the new amplitude or decay constant (amp2.5 gives a waveform
\* whose clipped maximum is 2.5 V), the compensation output from the new
\* compensation value.
C6_SetRestarts ==
    running = 1 =>
        \A g \in ZeroReads :
            /\ \A v \in AmpVals :
                  LET r == amplitude(Cur, v, 0, g)
                  IN  /\ r = Restart(Cur, "amplitude_spin", v, g)
                      /\ r.log = OffOnLog
                      /\ r.running = 1 /\ r.atask.st = "started"
                      /\ r.atask.amplitude = v
                      /\ (r.filename = "" /\ r.decay_spin > 0) =>
                             MaxOf(r.atask.write) = v
            /\ \A v \in DecayVals :
                  LET r == const(Cur, v, 0, g)
                  IN  /\ r = Restart(Cur, "decay_spin", v, g)
                      /\ r.log = OffOnLog
                      /\ r.running = 1 /\ r.atask.st = "started"
                      /\ r.atask.lamb = v
            /\ \A v \in CompVals :
                  LET r == compensate(Cur, v, 0, g)
                  IN  /\ r = Restart(Cur, "comp_spin", v, g)
                      /\ r.log = OffOnLog
                      /\ r.running = 1 /\ r.atask.st = "started"
                      /\ r.ao0 = v
            /\ listenToClient(<<"amp", "2", ".", "5">>) = <<[sig |-> "amp", arg |-> 25]>>
            /\ \A m \in Signals :
                  m.sig \in {"amp", "const", "comp"} =>
                      Slot(Cur, m, 0, g) =
                          Restart(Cur, CASE m.sig = "amp" -> "amplitude_spin"
                                         [] m.sig = "const" -> "decay_spin"
                                         [] m.sig = "comp" -> "comp_spin",
                                  m.arg, g)

\* The signal of the remote packet amp2.5 has restarted a running flipper:
\* the flip task now streaming was built with amplitude 2.5 V.
C6_Witness ==
    /\ last.op = "amp" /\ last.arg = 25
    /\ log = OffOnLog /\ ~err
    /\ running = 1 /\ atask.st = "started" /\ atask.amplitude = 25

\* C7 (as stated).  SetWaveformFile called while running does Off(), applies
\* the new file, does On(): the flip task alive afterwards was built after
\* the change, from the new filename.
C7_FileRestart ==
    (proc = "exec" /\ running = 1) =>
        \A name \in Files :
            LET r == fn(Cur, name)
            IN  /\ r.log = OffOnLog
                /\ r.running = 1 /\ r.atask.st = "started"
                /\ r.atask.filename = name

\* C8 (as stated).  Under any interleaving of On()/Off()/Toggle() calls, at
\* most one AnalogTask that is created and not cleared exists at any time
\* (flipPeak: the most there were at once during the last slot).
C8_OneFlipTask == flipPeak <= 1

\* C9 (as stated).  If a device call of On() fails, then after On() running
\* is 0 and every task that On() created has been cleared.
C9_OnRollsBack ==
    (proc = "exec" /\ running = 0) =>
        \A f \in 1..5 :
            LET r == on(Cur, f)
            IN  /\ r.err
                /\ r.running = 0
                /\ Len(r.log) >= 2 => ~Live(r.cmptask)    \* cmptask was created
                /\ Len(r.log) >= 5 => ~Live(r.atask)      \* atask was created

\* C10 (as stated).  On normal shutdown ZeroOutput is invoked before exit,
\* running or not, and (no device call failing) completes with both analog
\* outputs written to 0 V.
C10_ShutdownZeroes ==
    proc = "exited" =>
        /\ last.op = "aboutToQuit"
        /\ Has(log, "ZeroOutput.WriteAnalogF64")
        /\ faults = 0 => (~err /\ ao0 = 0 /\ ao1 = 0)

\* Callbacks in one window of the frequency estimate.
K == 10

\* C11 (as stated).  On every K-th callback counted from the first one after
\* construction, freq becomes K over the sum of exactly the K deltas added
\* since the last reset and the accumulator is reset to zero; on every other
\* callback freq is unchanged.  (Ten callbacks 0.1 s apart give 10.0 Hz.)
C11_Window ==
    \A d \in Deltas :
        LET r == CallbackBody(rtask, d)
        IN  IF (mon.calls + 1) % K = 0
            THEN /\ mon.deltas + 1 = K
                 /\ r.freq = [num |-> 100 * K, den |-> rtask.sum_delta_t + d]
                 /\ r.sum_delta_t = 0
            ELSE r.freq = rtask.freq

\* |freq - 10| > 1, in Hz: more than 10% of the expected 10 Hz.
OffByTenPercent(freq) == Abs(freq.num - 10 * freq.den) > freq.den

\* C12 (as stated).  missed is incremented at a window boundary (a callback
\* that computes freq and resets the accumulator) exactly when the computed
\* frequency is more than 1 Hz away from 10 Hz, and is unchanged on every
\* other callback.
C12_Missed ==
    \A d \in Deltas :
        LET r == CallbackBody(rtask, d)
        IN  IF r.sum_delta_t = 0
            THEN r.missed = rtask.missed + (IF OffByTenPercent(r.freq) THEN 1 ELSE 0)
            ELSE r.missed = rtask.missed

\* C13 (as stated).  Every flip waveform synthesized from the analytic model,
\* whatever the decay constant and the amplitude, ends with a pad sample equal
\* to the amplitude, and its length is the number of model samples plus the
\* pad sample.
C13_Pad ==
    (Live(atask) /\ atask.filename = "") =>
        /\ Len(atask.write) = NSamp + 1
        /\ atask.write[Len(atask.write)] = atask.amplitude

Keywords == {"comp", "amp", "const", "file", "toggle"}

\* The packet names no command, or the parser raises on it.
Malformed(p) == (\A kw \in Keywords : ~Has(p, kw)) \/ ~Blocks(p).ok

\* C15 (as stated).  A packet that matches no keyword, or is otherwise
\* malformed, invokes no controller operation (no signal is emitted for it)
\* and leaves running, interrupted, the parameters and the tasks unchanged.
C15_MalformedIgnored ==
    \A p \in Packets :
        Malformed(p) =>
            /\ listenToClient(p) = <<>>
            /\ \A i \in 1..Len(listenToClient(p)) :
                  Slot(Cur, listenToClient(p)[i], 0, <<0, 0>>) = Cur

\* C16 (as stated).  Between controller operations, also after a failed On()
\* or Off(), running is 1 exactly when a flip task exists that has been
\* started and not cleared.
C16_RunningIffStarted == (running = 1) <=> (atask.st = "started")

\* C17.  The executions of On(), Off(), Toggle(), the setters and the poll
\* body are mutually exclusive: at no time are two threads inside a
\* controller method (a remote operation and the poll, a remote operation
\* and a click, or two remote operations).
C17_Exclusive == Cardinality({t \in Threads : th[t] # "idle"}) <= 1

\* A remote operation is being executed while another remote signal waits in
\* the queue and a client thread is about to emit a third.
C17_Witness ==
    /\ th["main"] \in {"toggle", "comp", "amp", "const", "fn"}
    /\ queue # <<>>
    /\ \E c \in Clients : pend[c] # <<>>

\* C18 (as stated).  Every SetCompensation(v), running or not, constructs a
\* compensation task with the new value, starts it and clears it, so that
\* afterwards the last value written to the compensation channel is v.
C18_CompReissued ==
    \A v \in CompVals, g \in Reads(Cur) :
        LET r == compensate(Cur, v, 0, g)
        IN  /\ Has(r.log, "CompensationTask")
            /\ Has(r.log, "cmptask.StartTask")
            /\ Has(r.log, "cmptask.ClearTask")
            /\ r.ao0 = v

\* C19 (as stated, on the beam-loss episode).  When the automatic Off() of a
\* poll fails (the poll runs with running == 1 and more than 5 s of silence,
\* and a device call of Off() raises), the state still satisfies the guard of
\* the suspend transition (running == 1) and the next poll attempts Off()
\* again.
C19_PollRetries ==
    (proc = "exec" /\ running = 1 /\ age > TimeoutSecs) =>
        \A f \in 1..OffCalls, g \in ZeroReads :
            LET r1 == timeout(Cur, age, f, g)
                r2 == timeout(Begin(r1), age, 0, g)
            IN  /\ Has(r1.log, "atask.ClearTask") /\ r1.err
                /\ r1.running = 1
                /\ Has(r2.log, "atask.ClearTask")

Held(at, cmp, chans) ==
    \/ Live(at) /\ at.chan \cap chans # {}
    \/ Live(cmp) /\ cmp.chan \cap chans # {}

\* C21 (as stated, at shutdown).  No two created-and-not-cleared tasks hold
\* the same analog output channel: when ZeroOutput has created its task on
\* dev1/ao0 and dev1/ao1 at shutdown (which leaves the controller's tasks as
\* they were), no task of the controller that is created and not cleared
\* holds either channel.
C21_NoSharedChannel ==
    (proc = "exited" /\ Has(log, "ZeroOutput.WriteAnalogF64")) =>
        ~Held(atask, cmptask, {"ao0", "ao1"})

\* The controller is suspended: flip task cleared, outputs at zero.
Suspended == running = 0 /\ atask = Cleared /\ ao0 = 0 /\ ao1 = 0

\* C22 (as stated).  With the poll timer firing and no device call failing:
\* if the controller is running and no readback callback has occurred for
\* more than 5 s, then eventually running is false with the flip task
\* cleared and both outputs zeroed (unless a callback arrives first, or the
\* user switches the controller off or quits); and if the controller is suspended by beam loss and callbacks
\* have resumed, then eventually running is true again with interrupted
\* cleared (unless the callbacks stop again or the user quits).
C22_BeamLossLiveness ==
    /\ (proc = "exec" /\ faults = 0 /\ running = 1 /\ age > TimeoutSecs)
           ~> (\/ Suspended
               \/ running = 0 /\ interrupted = 0
               \/ age <= TimeoutSecs \/ faults > 0 \/ proc = "exited")
    /\ (proc = "exec" /\ faults = 0 /\ running = 0 /\ interrupted = 1
                      /\ age < TimeoutSecs)
           ~> (\/ running = 1 /\ interrupted = 0
               \/ age >= TimeoutSecs \/ faults > 0 \/ proc = "exited")

====
